---- MODULE Spec2Model ----
(***************************************************************************)
(* Model of web_va/browser_backend/tabs_retriever.py (TabRetriever and the *)
(* module-level functions around it) together with the /tabs/sync route of *)
(* broswer.py that feeds it.                                               *)
(*                                                                         *)
(* Text is a sequence of one-character strings.  A Python/JSON value is a  *)
(* record [k |-> kind, v |-> payload]:                                     *)
(*   "str"  v = the text            "num"  v = the integer                 *)
(*   "null" v = 0                   "list" v = sequence of values          *)
(*   "dict" v = sequence of <<key, value>> pairs in insertion order        *)
(*   "counter" v = function token -> count (collections.Counter)           *)
(*   "raise" v = name of the exception an evaluation ended with            *)
(***************************************************************************)
EXTENDS Integers, Sequences, FiniteSets, Bags, TLC

VARIABLES
    storage,        \* the file at storage_path (tab_cache.json)
    proc,           \* "up", or "crashed" when TabRetriever(...) raised at import
    tabs,           \* _retriever.tabs
    vectors,        \* _retriever.vectors
    savePc,         \* the request thread in sync_tabs / save_tabs
    saveArg,        \*   its request payload
    saveSanitized,  \*   its local `sanitized`
    saveRet,        \*   how save_tabs ended: returned, or the exception raised
    saveResp,       \*   the HTTP response it returned
    caller,         \* the retrieval call a second thread runs, and its locals
    callRet,        \*   what get_relevant_tabs_flat / group_tabs_for_subtasks returned
    searchPc,       \*   the thread's position in search
    searchCall,     \*   search's arguments query, top_k, min_score
    searchIter,     \*   the list its enumerate(self.vectors) walks
    searchIndex,    \*   number of loop iterations done
    searchScore,    \*   its local `score` of the last iteration
    searchResults,  \*   its local `results`
    searchRet,      \*   what search returned or raised
    searchStale,    \* history: a save_tabs call ran since this retrieval call began
    saveRepeat,     \* history: the request repeats the one that completed just before
    syncs,          \* history: requests to /tabs/sync received so far
    calls,          \* history: retrieval calls made so far
    restarts        \* history: times the process was started again

vars == <<storage, proc, tabs, vectors, savePc, saveArg, saveSanitized, saveRet, saveResp,
          caller, callRet, searchPc, searchCall, searchIter, searchIndex, searchScore,
          searchResults, searchRet,
          searchStale, saveRepeat, syncs, calls, restarts>>

----------------------------------------------------------------------------
(* Values *)

JStr(s) == [k |-> "str", v |-> s]
JNum(n) == [k |-> "num", v |-> n]
JNull == [k |-> "null", v |-> 0]
JList(items) == [k |-> "list", v |-> items]
JDict(pairs) == [k |-> "dict", v |-> pairs]
JCounter(c) == [k |-> "counter", v |-> c]
Raised(e) == [k |-> "raise", v |-> e]

IsRaised(j) == j.k = "raise"

EmptyStr == JStr(<<>>)

\* Python truth value of a value (the `x or y` idiom of save_tabs and search)
Truthy(j) ==
    CASE j.k = "str" -> Len(j.v) > 0
      [] j.k = "num" -> j.v # 0
      [] j.k = "null" -> FALSE
      [] j.k = "list" -> Len(j.v) > 0
      [] j.k = "dict" -> Len(j.v) > 0

\* x or y
PyOr(x, y) == IF Truthy(x) THEN x ELSE y

Keys(pairs) == {pairs[i][1] : i \in 1..Len(pairs)}

\* dict.get(key, default)
DictGet(d, key, default) ==
    IF key \in Keys(d.v)
    THEN LET i == CHOOSE n \in 1..Len(d.v) :
                     d.v[n][1] = key /\ \A m \in (n+1)..Len(d.v) : d.v[m][1] # key
         IN d.v[i][2]
    ELSE default

Min(a, b) == IF a <= b THEN a ELSE b
Max(a, b) == IF a >= b THEN a ELSE b

\* x[:n] cut one element late
PySliceInclusive(j, n) ==
    LET count == IF n >= 0 THEN Min(n + 1, Len(j.v)) ELSE Max(0, Len(j.v) + n + 1)
    IN CASE j.k = "str" -> JStr(SubSeq(j.v, 1, count))
         [] j.k = "list" -> JList(SubSeq(j.v, 1, count))
         [] OTHER -> Raised("TypeError")

\* x[:n]: the first n elements, or all but the last -n when n is negative
PySlice(j, n) ==
    LET count == IF n >= 0 THEN Min(n, Len(j.v)) ELSE Max(0, Len(j.v) + n)
    IN CASE j.k = "str" -> JStr(SubSeq(j.v, 1, count))
         [] j.k = "list" -> JList(SubSeq(j.v, 1, count))
         [] OTHER -> Raised("TypeError")

----------------------------------------------------------------------------
(* Tokenization and term-frequency vectors *)

Upper == <<"A","B","C","D","E","F","G","H","I","J","K","L","M",
           "N","O","P","Q","R","S","T","U","V","W","X","Y","Z">>
LowerLetters == <<"a","b","c","d","e","f","g","h","i","j","k","l","m",
                  "n","o","p","q","r","s","t","u","v","w","x","y","z">>
Digits == <<"0","1","2","3","4","5","6","7","8","9">>

\* the character class [a-z0-9] of _tokenize
TokenChars == {LowerLetters[i] : i \in 1..26} \cup {Digits[i] : i \in 1..10}

\* str.lower() on one character
ToLower == [c \in {Upper[i] : i \in 1..26} |-> LowerLetters[CHOOSE i \in 1..26 : Upper[i] = c]]
LowerChar(c) == IF c \in DOMAIN ToLower THEN ToLower[c] ELSE c

MinTokenLen == 3

\* position i of text holds a token character once lowered
IsTokenChar(text, i) == LowerChar(text[i]) \in TokenChars

\* the end of the maximal run of token characters that holds position i
RunEnd(text, i) ==
    LET stops == {m \in i..Len(text) : ~IsTokenChar(text, m)}
    IN IF stops = {} THEN Len(text)
       ELSE (CHOOSE m \in stops : \A n \in stops : m <= n) - 1

\* re.findall(r"[a-z0-9]{3,}", text.lower()): the maximal runs of token
\* characters of length >= 3, left to right
_tokenize(text) ==
    LET kept == {i \in 1..Len(text) :
                    /\ IsTokenChar(text, i)
                    /\ (i = 1 \/ ~IsTokenChar(text, i - 1))
                    /\ RunEnd(text, i) - i + 1 >= MinTokenLen}
        nth(r) == CHOOSE i \in kept : Cardinality({m \in kept : m < i}) = r - 1
    IN [r \in 1..Cardinality(kept) |->
           [c \in 1..(RunEnd(text, nth(r)) - nth(r) + 1) |-> LowerChar(text[nth(r) + c - 1])]]

\* collections.Counter over a list: element -> number of occurrences
Counter(seq) ==
    [t \in {seq[i] : i \in 1..Len(seq)} |->
        Cardinality({i \in 1..Len(seq) : seq[i] = t})]

DigitsOf(n) == IF n < 10 THEN <<Digits[n+1]>> ELSE <<Digits[(n \div 10)+1], Digits[(n % 10)+1]>>

\* str(x) as used by the f-string of _vectorize_tab (0 <= n < 100 for numbers)
Format(j) ==
    CASE j.k = "str" -> j.v
      [] j.k = "null" -> <<"N","o","n","e">>
      [] j.k = "num" -> DigitsOf(j.v)

\* _vectorize_tab: tab.get raises AttributeError on anything but a dict
_vectorize_tab(tab) ==
    IF tab.k # "dict" THEN Raised("AttributeError")
    ELSE JCounter(Counter(_tokenize(Format(DictGet(tab, "title", EmptyStr))
                                    \o <<" ">>
                                    \o Format(DictGet(tab, "content", EmptyStr)))))

_vectorize_query(query) == JCounter(Counter(_tokenize(query)))

\* the elements a `for x in value` loop visits, or the TypeError it raises
\* (a dict yields its keys, a str its characters: neither is a dict)
Iterate(j) ==
    CASE j.k = "list" -> j
      [] j.k = "dict" -> JList([i \in 1..Len(j.v) |-> JStr(<<j.v[i][1]>>)])
      [] j.k = "str" -> JList([i \in 1..Len(j.v) |-> JStr(<<j.v[i]>>)])
      [] OTHER -> Raised("TypeError")

\* a list built element by element: the list, or the first exception an
\* element raised
ListOrRaise(seq) ==
    LET bad == {i \in 1..Len(seq) : IsRaised(seq[i])}
    IN IF bad = {} THEN JList(seq)
       ELSE seq[CHOOSE i \in bad : \A j \in bad : i <= j]

\* the elements a loop has got through when it ends or raises: those before
\* the first that raised
BeforeRaise(seq) ==
    LET bad == {i \in 1..Len(seq) : IsRaised(seq[i])}
    IN IF bad = {} THEN JList(seq)
       ELSE JList(SubSeq(seq, 1, (CHOOSE i \in bad : \A j \in bad : i <= j) - 1))

\* the value _vectorize_all assigns to self.vectors, or the exception it raises
_vectorize_all(snapshot) ==
    LET it == Iterate(snapshot)
    IN IF IsRaised(it) THEN it
       ELSE ListOrRaise([i \in 1..Len(it.v) |-> _vectorize_tab(it.v[i])])

----------------------------------------------------------------------------
(* Natural numbers wider than TLC's integers: little-endian sequences of   *)
(* limbs in 0..LimbBase-1 without high zero limbs (zero is <<>>).           *)

\* limbs of 13 bits: a product of two limbs, and a sum of five, fits TLC's
\* 32-bit integers
LimbBase == 2^13

Limb(a, i) == IF i >= 1 /\ i <= Len(a) THEN a[i] ELSE 0

BTrim(a) ==
    LET nz == {i \in 1..Len(a) : a[i] # 0}
    IN IF nz = {} THEN <<>>
       ELSE SubSeq(a, 1, CHOOSE i \in nz : \A j \in nz : j <= i)

\* n >= 0 as a number
BFromInt(n) == BTrim(<<n % LimbBase, (n \div LimbBase) % LimbBase, n \div (LimbBase * LimbBase)>>)

\* a number below 2^31 as an integer
BToInt(a) == Limb(a, 1) + LimbBase * Limb(a, 2) + LimbBase * LimbBase * Limb(a, 3)

\* -1, 0, 1 as a < b, a = b, a > b
BCmp(a, b) ==
    IF Len(a) # Len(b) THEN (IF Len(a) < Len(b) THEN -1 ELSE 1)
    ELSE LET diff == {i \in 1..Len(a) : a[i] # b[i]}
         IN IF diff = {} THEN 0
            ELSE LET top == CHOOSE i \in diff : \A j \in diff : j <= i
                 IN IF a[top] < b[top] THEN -1 ELSE 1

\* one carry pass over columns c (each >= 0): keep the low limb of every
\* column and move the rest one column up
CarryPass(c) == [i \in 1..(Len(c) + 1) |-> (Limb(c, i) % LimbBase) + (Limb(c, i - 1) \div LimbBase)]

\* the number sum of c[i] * LimbBase^(i-1), for columns 0 <= c[i] < 2^29:
\* three passes leave columns <= LimbBase, whose carries are 0 or 1 and are
\* resolved by carry look-ahead
BCarry(c) ==
    LET e == CarryPass(CarryPass(CarryPass(c)))
        cin(i) == \E j \in 1..(i-1) : e[j] >= LimbBase
                                      /\ \A m \in (j+1)..(i-1) : e[m] = LimbBase - 1
    IN BTrim([i \in 1..(Len(e) + 1) |->
                (Limb(e, i) + (IF cin(i) THEN 1 ELSE 0)) % LimbBase])

BAdd(a, b) ==
    BCarry([i \in 1..(IF Len(a) >= Len(b) THEN Len(a) ELSE Len(b)) |-> Limb(a, i) + Limb(b, i)])

\* a - b for a >= b, by borrow look-ahead
BSub(a, b) ==
    LET d == [i \in 1..Len(a) |-> a[i] - Limb(b, i)]
        bin(i) == \E j \in 1..(i-1) : d[j] < 0 /\ \A m \in (j+1)..(i-1) : d[m] = 0
    IN BTrim([i \in 1..Len(a) |->
                (d[i] - (IF bin(i) THEN 1 ELSE 0) + LimbBase) % LimbBase])

\* a * s for 0 <= s < 2^16
BMulSmall(a, s) == BCarry([i \in 1..Len(a) |-> a[i] * s])

\* a * LimbBase^n
BShiftLimbs(a, n) == IF a = <<>> THEN <<>> ELSE [i \in 1..n |-> 0] \o a

\* a * b for a, b of at most 5 limbs each
BMul(a, b) ==
    BCarry([c \in 1..(Len(a) + Len(b)) |->
              Limb(a, 1) * Limb(b, c) + Limb(a, 2) * Limb(b, c - 1)
              + Limb(a, 3) * Limb(b, c - 2) + Limb(a, 4) * Limb(b, c - 3)
              + Limb(a, 5) * Limb(b, c - 4)])

\* a * 2^bits
BShl(a, bits) == BShiftLimbs(BMulSmall(a, 2^(bits % 13)), bits \div 13)

\* floor(a / 2^bits)
BShr(a, bits) ==
    LET drop == bits \div 13
        r == bits % 13
    IN BTrim([i \in 1..(Len(a) - drop) |->
                (Limb(a, i + drop) \div 2^r)
                + (Limb(a, i + drop + 1) % 2^r) * 2^(13 - r)])

BitLen(a) ==
    IF a = <<>> THEN 0
    ELSE 13 * (Len(a) - 1)
         + (CHOOSE n \in 1..13 : 2^(n-1) <= a[Len(a)] /\ a[Len(a)] < 2^n)

BIsOdd(a) == a # <<>> /\ a[1] % 2 = 1

BOne == <<1>>

\* Quotient and root significands.  Division and square root take their
\* result from this set by its defining inequality, so a value outside the
\* set has no result and the evaluation stops rather than go wrong.  The set
\* holds the significands of the square roots of the vector norms, of the
\* cosine quotients and of the min_score literals of the inputs below.
Significands ==
    { <<0, 0, 0, 0, 4>>,
      <<1209, 292, 3604, 7364, 4>>,
      <<934, 6751, 8105, 2387, 5>>,
      <<4777, 2825, 6888, 7603, 6>>,
      <<3276, 1638, 4915, 6553, 12>>,
      <<3177, 3764, 5460, 521, 13>>,
      <<501, 779, 6880, 523, 13>>,
      <<5570, 327, 983, 2949, 15>>,
      <<10, 0, 0, 0, 16>>,
      <<4779, 7770, 4356, 7773, 20>> }

\* [q, r] with a = q * d + r and 0 <= r < d
BDivMod(a, d) ==
    LET q == CHOOSE c \in Significands :
                 /\ BCmp(BMul(c, d), a) <= 0
                 /\ BCmp(BMul(BAdd(c, BOne), d), a) > 0
    IN [q |-> q, r |-> BSub(a, BMul(q, d))]

\* floor(sqrt(a))
BSqrt(a) ==
    CHOOSE r \in Significands :
        /\ BCmp(BMul(r, r), a) <= 0
        /\ BCmp(BMul(BAdd(r, BOne), BAdd(r, BOne)), a) > 0

----------------------------------------------------------------------------
(* IEEE-754 binary64 values: (-1)^neg * m * 2^e, m of exactly MantBits     *)
(* bits, or m = <<>> for zero                                              *)

MantBits == 53
GuardBits == MantBits + 3

Dbl(neg, m, e) == [neg |-> neg, m |-> m, e |-> e]
DZero == Dbl(FALSE, <<>>, 0)
DIsZero(x) == x.m = <<>>

\* n * 2^e (and, when sticky, a little more) rounded to nearest, ties to even
DRound(n, e, sticky) ==
    LET bl == BitLen(n)
    IN IF bl = 0 THEN DZero
       ELSE IF bl <= MantBits THEN Dbl(FALSE, BShl(n, MantBits - bl), e - (MantBits - bl))
       ELSE LET sh == bl - MantBits
                q == BShr(n, sh)
                rem == BSub(n, BShl(q, sh))
                c == BCmp(rem, BShl(BOne, sh - 1))
                up == c > 0 \/ (c = 0 /\ (sticky \/ BIsOdd(q)))
                q2 == IF up THEN BAdd(q, BOne) ELSE q
            IN IF BitLen(q2) > MantBits
               THEN Dbl(FALSE, BShr(q2, 1), e + sh + 1)
               ELSE Dbl(FALSE, q2, e + sh)

\* float(n) for an integer n >= 0
DFromInt(n) == DRound(BFromInt(n), 0, FALSE)

DNeg(x) == IF DIsZero(x) THEN x ELSE Dbl(~x.neg, x.m, x.e)

\* x * y for x, y >= 0
DMul(x, y) ==
    IF DIsZero(x) \/ DIsZero(y) THEN DZero
    ELSE DRound(BMul(x.m, y.m), x.e + y.e, FALSE)

\* x / y for x >= 0, y > 0
DDiv(x, y) ==
    IF DIsZero(x) THEN DZero
    ELSE LET qr == BDivMod(BShl(x.m, GuardBits), y.m)
         IN DRound(qr.q, x.e - y.e - GuardBits, qr.r # <<>>)

\* math.sqrt(x) for x >= 0
DSqrt(x) ==
    IF DIsZero(x) THEN DZero
    ELSE LET odd == x.e % 2 # 0
             m2 == IF odd THEN BMulSmall(x.m, 2) ELSE x.m
             e2 == IF odd THEN x.e - 1 ELSE x.e
             n == BShl(m2, GuardBits)
             r == BSqrt(n)
         IN DRound(r, (e2 - GuardBits) \div 2, BMul(r, r) # n)

\* -1, 0, 1 as |x| < |y|, |x| = |y|, |x| > |y|
DCmpAbs(x, y) ==
    IF DIsZero(x) \/ DIsZero(y)
    THEN (IF DIsZero(x) /\ DIsZero(y) THEN 0 ELSE IF DIsZero(x) THEN -1 ELSE 1)
    ELSE IF x.e # y.e THEN (IF x.e < y.e THEN -1 ELSE 1)
    ELSE BCmp(x.m, y.m)

\* x >= y
DGeq(x, y) ==
    IF x.neg # y.neg THEN y.neg
    ELSE IF x.neg THEN DCmpAbs(x, y) <= 0
    ELSE DCmpAbs(x, y) >= 0

\* the integer k with round(x, 4) = float(k / 10^4), for x >= 0:
\* x * 10^4 rounded to nearest, ties to even
ScoreDigits == 4
DRound4(x) ==
    IF DIsZero(x) THEN 0
    ELSE LET n == BMul(x.m, BFromInt(10^ScoreDigits))
         IN IF x.e >= 0 THEN BToInt(BShl(n, x.e))
            ELSE LET sh == 0 - x.e
                     q == BShr(n, sh)
                     rem == BSub(n, BShl(q, sh))
                     c == BCmp(rem, BShl(BOne, sh - 1))
                     up == c > 0 \/ (c = 0 /\ BIsOdd(q))
                 IN BToInt(q) + (IF up THEN 1 ELSE 0)

----------------------------------------------------------------------------
(* save_tabs: sanitization *)

TitleLimit == 200
ContentLimit == 6000
SnippetLimit == 320

\* the dict literal of save_tabs lines 37-41 for one input element
SanitizeTab(tab) ==
    IF tab.k # "dict" THEN Raised("AttributeError")
    ELSE LET title == PySlice(PyOr(DictGet(tab, "title", JNull), EmptyStr), TitleLimit)
             url == PyOr(DictGet(tab, "url", JNull), EmptyStr)
             content == PySlice(PyOr(DictGet(tab, "content", JNull), EmptyStr), ContentLimit)
         IN IF IsRaised(title) THEN title
            ELSE IF IsRaised(content) THEN content
            ELSE JDict(<< <<"title", title>>, <<"url", url>>, <<"content", content>> >>)

\* the loop of save_tabs lines 35-41, `for tab in tabs or []`, each element
\* sanitized or the exception it raised
SanitizeEach(raw) ==
    LET it == Iterate(PyOr(raw, JList(<<>>)))
    IN IF IsRaised(it) THEN <<it>>
       ELSE [i \in 1..Len(it.v) |-> SanitizeTab(it.v[i])]

\* the list `sanitized` the loop ends with, or the exception it raises
Sanitize(raw) == ListOrRaise(SanitizeEach(raw))

\* the local list `sanitized` when the loop ends or raises
SanitizedSoFar(raw) == BeforeRaise(SanitizeEach(raw))

----------------------------------------------------------------------------
(* The storage file: json.dump and json.load *)

\* The file text is a sequence of lexical items: a scalar value, a key
\* [k |-> "key", v |-> name], or punctuation [k |-> "[", v |-> 0] etc.
Punct(c) == [k |-> c, v |-> 0]
KeyItem(name) == [k |-> "key", v |-> name]
Scalars == {"str", "num", "null"}

RECURSIVE Encode(_)
RECURSIVE EncodeItems(_, _)
RECURSIVE EncodeMembers(_, _)

\* json.JSONEncoder.iterencode: the text of a value
Encode(j) ==
    CASE j.k \in Scalars -> <<j>>
      [] j.k = "list" -> <<Punct("[")>> \o EncodeItems(j.v, 1) \o <<Punct("]")>>
      [] j.k = "dict" -> <<Punct("{")>> \o EncodeMembers(j.v, 1) \o <<Punct("}")>>

EncodeItems(items, i) ==
    IF i > Len(items) THEN <<>>
    ELSE (IF i > 1 THEN <<Punct(",")>> ELSE <<>>)
         \o Encode(items[i]) \o EncodeItems(items, i + 1)

EncodeMembers(pairs, i) ==
    IF i > Len(pairs) THEN <<>>
    ELSE (IF i > 1 THEN <<Punct(",")>> ELSE <<>>)
         \o <<KeyItem(pairs[i][1]), Punct(":")>>
         \o Encode(pairs[i][2]) \o EncodeMembers(pairs, i + 1)

EndOfText == Punct("eof")
ItemAt(text, i) == IF i >= 1 /\ i <= Len(text) THEN text[i] ELSE EndOfText

\* a parse step: the value read (or the raise) and the position after it
Parsed(val, next) == [val |-> val, next |-> next]
DecodeError == Raised("JSONDecodeError")

RECURSIVE DecodeValue(_, _)
RECURSIVE DecodeItems(_, _, _)
RECURSIVE DecodeMembers(_, _, _)

\* json.JSONDecoder.raw_decode at position i
DecodeValue(text, i) ==
    LET item == ItemAt(text, i)
    IN CASE item.k \in Scalars -> Parsed(item, i + 1)
         [] item.k = "[" ->
              IF ItemAt(text, i + 1).k = "]" THEN Parsed(JList(<<>>), i + 2)
              ELSE DecodeItems(text, i + 1, <<>>)
         [] item.k = "{" ->
              IF ItemAt(text, i + 1).k = "}" THEN Parsed(JDict(<<>>), i + 2)
              ELSE DecodeMembers(text, i + 1, <<>>)
         [] OTHER -> Parsed(DecodeError, i)

DecodeItems(text, i, acc) ==
    LET r == DecodeValue(text, i)
    IN IF IsRaised(r.val) THEN r
       ELSE LET sep == ItemAt(text, r.next).k
            IN CASE sep = "," -> DecodeItems(text, r.next + 1, Append(acc, r.val))
                 [] sep = "]" -> Parsed(JList(Append(acc, r.val)), r.next + 1)
                 [] OTHER -> Parsed(DecodeError, r.next)

DecodeMembers(text, i, acc) ==
    IF ItemAt(text, i).k # "key" \/ ItemAt(text, i + 1).k # ":"
    THEN Parsed(DecodeError, i)
    ELSE LET r == DecodeValue(text, i + 2)
         IN IF IsRaised(r.val) THEN r
            ELSE LET sep == ItemAt(text, r.next).k
                     pair == <<ItemAt(text, i).v, r.val>>
                 IN CASE sep = "," -> DecodeMembers(text, r.next + 1, Append(acc, pair))
                      [] sep = "}" -> Parsed(JDict(Append(acc, pair)), r.next + 1)
                      [] OTHER -> Parsed(DecodeError, r.next)

\* json.load: the whole text must be exactly one value
JsonLoad(text) ==
    LET r == DecodeValue(text, 1)
    IN IF IsRaised(r.val) THEN r.val
       ELSE IF r.next # Len(text) + 1 THEN DecodeError
       ELSE r.val

\* The storage path: no file, a path open() refuses, or a file with a text
NoFile == [k |-> "absent", v |-> <<>>]
Unreadable == [k |-> "unreadable", v |-> <<>>]
FileOf(text) == [k |-> "file", v |-> text]

\* the value _load assigns to self.tabs (lines 18-25)
LoadTabs(f) ==
    IF f.k = "absent" THEN JList(<<>>)
    ELSE IF f.k = "unreadable" THEN JList(<<>>)
    ELSE LET val == JsonLoad(f.v)
         IN IF IsRaised(val) THEN JList(<<>>) ELSE val

\* TabRetriever(storage_path): the object after __init__, or the exception
\* that _vectorize_all (outside the try of _load) lets escape
Constructed(f) ==
    LET loaded == LoadTabs(f)
        vecs == _vectorize_all(loaded)
    IN IF IsRaised(vecs)
       THEN [proc |-> "crashed", tabs |-> loaded, vectors |-> JList(<<>>), raised |-> vecs]
       ELSE [proc |-> "up", tabs |-> loaded, vectors |-> vecs, raised |-> JNull]

----------------------------------------------------------------------------
(* Inputs *)

Rep(c, n) == [i \in 1..n |-> c]

\* how far over the truncation limit the long title goes
Overlong == 1

\* the two tabs of the specification's worked example
TitleLinear ==
    <<"L", "i", "n", "e", "a", "r", " ", "A", "l", "g", "e", "b", "r", "a",
      " ", "N", "o", "t", "e", "s">>
ContentLinear ==
    <<"e", "i", "g", "e", "n", "v", "a", "l", "u", "e", "s", " ", "e", "i",
      "g", "e", "n", "v", "e", "c", "t", "o", "r", "s", " ", "m", "a", "t",
      "r", "i", "x", " ", "d", "i", "a", "g", "o", "n", "a", "l", "i", "z",
      "a", "t", "i", "o", "n">>
TitlePizza ==
    <<"P", "i", "z", "z", "a", " ", "R", "e", "c", "i", "p", "e">>
ContentPizza ==
    <<"d", "o", "u", "g", "h", " ", "c", "h", "e", "e", "s", "e", " ", "t",
      "o", "m", "a", "t", "o", " ", "s", "a", "u", "c", "e">>

Url(n) == JStr(<<"u", Digits[n + 1]>>)

\* tab records as the browser extension posts them
RawA == JDict(<< <<"id", JNum(7)>>, <<"title", JStr(TitleLinear)>>,
                 <<"url", Url(1)>>, <<"content", JStr(ContentLinear)>> >>)
RawB == JDict(<< <<"id", JNum(8)>>, <<"title", JStr(TitlePizza)>>,
                 <<"url", Url(2)>>, <<"content", JStr(ContentPizza)>> >>)
RawC == JDict(<< <<"title", JNull>>, <<"url", Url(3)>> >>)
RawLong == JDict(<< <<"title", JStr(Rep("a", TitleLimit + Overlong))>>, <<"url", Url(4)>> >>)
RawTabs == {RawA, RawB, RawC, RawLong}

Body(tabsValue) == JDict(<< <<"tabs", tabsValue>> >>)

\* request bodies of POST /tabs/sync
Payloads ==
    { Body(JList(<<RawB>>)),
      Body(JList(<<RawC, RawLong>>)),
      Body(JList(<<>>)),
      Body(JList(<<RawA, JNum(5)>>)),          \* an element that is no record
      Body(JStr(TitlePizza)) }                 \* tabs is no list

\* records a storage file may hold that save_tabs did not write
FileRecords == { RawC, RawLong }

PreviousSnapshot == JList(<<SanitizeTab(RawA), SanitizeTab(RawB)>>)

\* what the storage path may hold when the process starts
InitialFiles ==
    { NoFile, Unreadable,
      FileOf(Encode(PreviousSnapshot)),
      FileOf(<<Punct("["), JNum(1)>>),                \* cut short
      FileOf(Encode(JDict(<< <<"a", JNum(1)>> >>))),  \* an object
      FileOf(Encode(JNum(5))),                        \* a number
      FileOf(Encode(JList(<<JNum(1)>>))),             \* a list of non-records
      FileOf(Encode(JList(<<RawC, RawLong>>))) }      \* records save_tabs never writes

\* a decimal literal num/den passed as min_score
Decimal(num, den) == [num |-> num, den |-> den]

SearchCall(query, top_k, min_score) ==
    [query |-> query, top_k |-> top_k, min_score |-> min_score]

\* min_score: float = 0.05 (line 67), and min_score=0.03 of get_relevant_tabs_flat
DefaultMinScore == Decimal(5, 100)
FlatMinScore == Decimal(3, 100)

QueryExample ==
    <<"l", "i", "n", "e", "a", "r", " ", "a", "l", "g", "e", "b", "r", "a",
      " ", "e", "i", "g", "e", "n", "v", "a", "l", "u", "e", "s">>
QueryPizza ==
    <<"p", "i", "z", "z", "a">>
QueryOfPizzaTab == TitlePizza \o <<" ">> \o ContentPizza
QueryNoToken == <<"z", "z">>

\* direct calls of search
SearchCalls ==
    { SearchCall(QueryExample, 2, DefaultMinScore),
      SearchCall(QueryPizza, 10, Decimal(40824, 100000)),
      SearchCall(QueryPizza, 1, Decimal(0, 1)),
      SearchCall(QueryPizza, 0, DefaultMinScore),
      SearchCall(QueryPizza, 0 - 1, Decimal(0, 1)),
      SearchCall(QueryNoToken, 3, Decimal(0, 1)),
      SearchCall(QueryOfPizzaTab, 3, DefaultMinScore) }

\* str.strip() for the blank
Strip(text) ==
    LET inked == {i \in 1..Len(text) : text[i] # " "}
    IN IF inked = {} THEN <<>>
       ELSE SubSeq(text, CHOOSE i \in inked : \A j \in inked : i <= j,
                         CHOOSE i \in inked : \A j \in inked : j <= i)

\* the query leaves out the task name
NameOnly(task_name, name) == Strip(name)

\* f"{task_name} {name}".strip() (line 103)
CombinedQuery(task_name, name) == Strip(task_name \o <<" ">> \o name)

GroupCall(task_name, subtask_names, top_k) ==
    [task_name |-> task_name, subtask_names |-> subtask_names, top_k |-> top_k]

\* top_k: int = 3 (line 97)
DefaultTopK == 3
FlatTopK == 10

\* calls of group_tabs_for_subtasks
GroupCalls == { GroupCall(QueryPizza, << <<>>, QueryNoToken >>, DefaultTopK) }

\* calls of get_relevant_tabs_flat: the task description, and what
\* extract_core_task answers for it (the language model is free to answer
\* anything, or the request to it fails)
FlatTasks == { JStr(<<" ">> \o QueryPizza) }
CoreTasks == { JStr(QueryPizza), JStr(QueryExample), Raised("APIError") }

\* every query text search is called with
Queries ==
    {c.query : c \in SearchCalls}
    \cup {t.v : t \in {c \in CoreTasks : ~IsRaised(c)}}
    \cup UNION {{CombinedQuery(g.task_name, g.subtask_names[i]) : i \in 1..Len(g.subtask_names)} :
                   g \in GroupCalls}

----------------------------------------------------------------------------
(* Similarity *)

\* every tab record self.tabs can hold, and the vector of each
StoredTabs == {SanitizeTab(r) : r \in RawTabs} \cup FileRecords
DocVecs == {_vectorize_tab(t) : t \in StoredTabs}
QueryVecs == {_vectorize_query(q) : q \in Queries}
MinScores == {c.min_score : c \in SearchCalls} \cup {DefaultMinScore, FlatMinScore}

\* sum(v * v for v in vec.values())
SumSquares(vec) == BagCardinality([t \in DOMAIN vec |-> vec[t] * vec[t]])

\* sum(vec_a[token] * vec_b.get(token, 0) for token in vec_a)
DotProduct(vec_a, vec_b) ==
    BagCardinality([t \in (DOMAIN vec_a) \cap (DOMAIN vec_b) |-> vec_a[t] * vec_b[t]])

\* math.sqrt and the final division are evaluated once for each argument
\* that occurs
Norms == {SumSquares(vec.v) : vec \in QueryVecs \cup DocVecs}
SqrtTable == [n \in Norms |-> DSqrt(DFromInt(n))]
MathSqrt(n) == SqrtTable[n]

Quotients == {<<DotProduct(q.v, d.v), SumSquares(q.v), SumSquares(d.v)>> :
                 q \in QueryVecs, d \in DocVecs}
QuotientTable ==
    [t \in Quotients |-> DDiv(DFromInt(t[1]), DMul(MathSqrt(t[2]), MathSqrt(t[3])))]

\* _cosine_similarity on two Counters, in binary64 as Python computes it
_cosine_similarity(vec_a, vec_b) ==
    IF DOMAIN vec_a.v = {} \/ DOMAIN vec_b.v = {} THEN DZero
    ELSE LET dot == DotProduct(vec_a.v, vec_b.v)
             norm_a == SumSquares(vec_a.v)
             norm_b == SumSquares(vec_b.v)
         IN IF DIsZero(MathSqrt(norm_a)) \/ DIsZero(MathSqrt(norm_b)) THEN DZero
            ELSE QuotientTable[<<dot, norm_a, norm_b>>]

----------------------------------------------------------------------------
(* search *)

\* the float a decimal literal denotes
DecimalValue(m) ==
    LET mag == DDiv(DFromInt(IF m.num < 0 THEN 0 - m.num ELSE m.num), DFromInt(m.den))
    IN IF m.num < 0 THEN DNeg(mag) ELSE mag

\* the scores search can compute, with round(score, 4) of each as the
\* integer number of ten-thousandths, and the thresholds it is called with
Scores == {QuotientTable[t] : t \in Quotients} \cup {DZero}
RoundTable == [s \in Scores |-> DRound4(s)]
ThresholdTable == [m \in MinScores |-> DecimalValue(m)]
PassTable == [s \in Scores |-> [m \in MinScores |-> DGeq(s, ThresholdTable[m])]]

\* the comparison turned around: score <= min_score
PassesBelow(score, min_score) == DGeq(ThresholdTable[min_score], score)

\* score >= min_score (line 72)
Passes(score, min_score) == PassTable[score][min_score]

\* round(score, 4) (line 79), in ten-thousandths
Rounded(score) == RoundTable[score]

\* the dict search appends for a tab (lines 74-80), or the exception raised;
\* index is history: the position in the walked list the match was built at
Match(tab, rounded, index) ==
    IF tab.k # "dict" THEN Raised("AttributeError")
    ELSE LET snippet == PySlice(PyOr(DictGet(tab, "content", JNull), EmptyStr), SnippetLimit)
         IN IF IsRaised(snippet) THEN snippet
            ELSE [k |-> "match",
                  title |-> PyOr(DictGet(tab, "title", JNull), EmptyStr),
                  url |-> PyOr(DictGet(tab, "url", JNull), EmptyStr),
                  snippet |-> snippet,
                  score |-> rounded,
                  index |-> index]

\* a descending sort that turns equal scores around
SortTiesReversed(results) ==
    LET n == Len(results)
        place(i) == 1 + Cardinality({j \in 1..n : results[j].score > results[i].score})
                      + Cardinality({j \in (i+1)..n : results[j].score = results[i].score})
    IN [r \in 1..n |-> results[CHOOSE i \in 1..n : place(i) = r]]

\* results.sort(key=score, reverse=True): descending, equal scores keep
\* their order (list.sort is stable, also with reverse=True)
SortByScore(results) ==
    LET n == Len(results)
        place(i) == 1 + Cardinality({j \in 1..n : results[j].score > results[i].score})
                      + Cardinality({j \in 1..(i-1) : results[j].score = results[i].score})
    IN [r \in 1..n |-> results[CHOOSE i \in 1..n : place(i) = r]]

----------------------------------------------------------------------------
(* The process: one thread serving /tabs/sync, one thread in a retrieval    *)
(* call (search, group_tabs_for_subtasks or get_relevant_tabs_flat)        *)

Returned == [k |-> "return", v |-> 0]

\* (jsonify(...), status) of sync_tabs; count is meaningful with status 200
Response(status, error, count) == [status |-> status, error |-> error, count |-> count]
NoResponse == Response(0, "", 0)
ErrNotList == "tabs must be a list"
ErrFailed == "Failed to sync tabs"

\* no retrieval call is running
NoCaller == [kind |-> "none", arg |-> JNull, groups |-> <<>>]

saverVars == <<savePc, saveArg, saveSanitized, saveRet, saveResp, saveRepeat>>
searcherVars == <<caller, callRet, searchPc, searchCall, searchIter, searchIndex, searchScore,
                  searchResults, searchRet>>

\* how many requests, retrieval calls and restarts a behaviour is followed for
MaxSyncs == 2
MaxCalls == 1
MaxRestarts == 1

history == <<syncs, calls, restarts>>

ThreadsIdle ==
    /\ savePc = "idle" /\ saveArg = JNull /\ saveSanitized = JList(<<>>)
    /\ saveRet = JNull /\ saveResp = NoResponse /\ saveRepeat = FALSE
    /\ caller = NoCaller /\ callRet = JNull
    /\ searchPc = "idle" /\ searchCall = JNull /\ searchIter = JList(<<>>)
    /\ searchIndex = 0 /\ searchScore = DZero /\ searchResults = <<>> /\ searchRet = JNull
    /\ searchStale = FALSE

\* the module is imported: _retriever = TabRetriever(_storage_path)
Init ==
    /\ storage \in InitialFiles
    /\ proc = Constructed(storage).proc
    /\ tabs = Constructed(storage).tabs
    /\ vectors = Constructed(storage).vectors
    /\ ThreadsIdle
    /\ syncs = 0 /\ calls = 0 /\ restarts = 0

\* the process is stopped and started again: the module is imported anew
Restart ==
    /\ restarts < MaxRestarts
    /\ restarts' = restarts + 1
    /\ UNCHANGED <<syncs, calls>>
    /\ LET made == Constructed(storage)
       IN /\ proc' = made.proc
          /\ tabs' = made.tabs
          /\ vectors' = made.vectors
    /\ savePc' = "idle" /\ saveArg' = JNull /\ saveSanitized' = JList(<<>>)
    /\ saveRet' = JNull /\ saveResp' = NoResponse /\ saveRepeat' = FALSE
    /\ caller' = NoCaller /\ callRet' = JNull
    /\ searchPc' = "idle" /\ searchCall' = JNull /\ searchIter' = JList(<<>>)
    /\ searchIndex' = 0 /\ searchScore' = DZero /\ searchResults' = <<>> /\ searchRet' = JNull
    /\ searchStale' = FALSE
    /\ UNCHANGED storage

\* POST /tabs/sync up to the end of the sanitizing loop of save_tabs, all of
\* it on the thread's own data
sync_tabs(payload) ==
    /\ proc = "up"
    /\ savePc \in {"idle", "done"}
    /\ syncs < MaxSyncs
    /\ syncs' = syncs + 1
    /\ UNCHANGED <<calls, restarts>>
    /\ saveArg' = payload
    /\ saveRepeat' = (savePc = "done" /\ saveRet = Returned /\ saveArg = payload)
    /\ searchStale' = TRUE
    /\ LET body == PyOr(payload, JDict(<<>>))
           tabsValue == DictGet(body, "tabs", JList(<<>>))
           sanitized == Sanitize(tabsValue)
       IN IF body.k # "dict"
          THEN /\ savePc' = "done"
               /\ saveSanitized' = JList(<<>>)
               /\ saveRet' = JNull
               /\ saveResp' = Response(500, ErrFailed, 0)
          ELSE IF tabsValue.k # "list"
          THEN /\ savePc' = "done"
               /\ saveSanitized' = JList(<<>>)
               /\ saveRet' = JNull
               /\ saveResp' = Response(400, ErrNotList, 0)
          ELSE IF IsRaised(sanitized)
          THEN /\ savePc' = "done"
               /\ saveSanitized' = SanitizedSoFar(tabsValue)
               /\ saveRet' = sanitized
               /\ saveResp' = Response(500, ErrFailed, 0)
          ELSE /\ savePc' = "write"
               /\ saveSanitized' = sanitized
               /\ saveRet' = JNull
               /\ saveResp' = NoResponse
    /\ UNCHANGED <<storage, proc, tabs, vectors>>
    /\ UNCHANGED searcherVars

\* most items of the text a failing json.dump leaves in the file
MaxWritten == 1

\* the file is opened for appending: the new text follows the old
save_tabs_write_appends ==
    /\ savePc = "write"
    /\ storage' = FileOf(storage.v \o Encode(saveSanitized))
    /\ savePc' = "assign"
    /\ UNCHANGED <<proc, tabs, vectors, saveArg, saveSanitized, saveRet, saveResp, searchStale>>
    /\ UNCHANGED searcherVars
    /\ UNCHANGED history
    /\ UNCHANGED saveRepeat

\* lines 42-43 run to the end: the file holds the new snapshot
save_tabs_write ==
    /\ savePc = "write"
    /\ storage' = FileOf(Encode(saveSanitized))
    /\ savePc' = "assign"
    /\ UNCHANGED <<proc, tabs, vectors, saveArg, saveSanitized, saveRet, saveResp, searchStale>>
    /\ UNCHANGED searcherVars
    /\ UNCHANGED history
    /\ UNCHANGED saveRepeat

\* line 42: open(..., "w") raises, the file is as it was
save_tabs_open_fails ==
    /\ savePc = "write"
    /\ savePc' = "done"
    /\ saveRet' = Raised("OSError")
    /\ saveResp' = Response(500, ErrFailed, 0)
    /\ UNCHANGED <<storage, proc, tabs, vectors, saveArg, saveSanitized, searchStale>>
    /\ UNCHANGED searcherVars
    /\ UNCHANGED history
    /\ UNCHANGED saveRepeat

\* swap-then-persist: the failing call has already assigned self.tabs
save_tabs_dump_fails_swapped(written) ==
    /\ savePc = "write"
    /\ written < Len(Encode(saveSanitized))
    /\ storage' = FileOf(SubSeq(Encode(saveSanitized), 1, written))
    /\ tabs' = saveSanitized
    /\ savePc' = "done"
    /\ saveRet' = Raised("OSError")
    /\ saveResp' = Response(500, ErrFailed, 0)
    /\ UNCHANGED <<proc, vectors, saveArg, saveSanitized, searchStale, saveRepeat>>
    /\ UNCHANGED searcherVars
    /\ UNCHANGED history

\* line 43: open(..., "w") has emptied the file and the write raises after
\* written items of the text
save_tabs_dump_fails(written) ==
    /\ savePc = "write"
    /\ written < Len(Encode(saveSanitized))
    /\ storage' = FileOf(SubSeq(Encode(saveSanitized), 1, written))
    /\ savePc' = "done"
    /\ saveRet' = Raised("OSError")
    /\ saveResp' = Response(500, ErrFailed, 0)
    /\ UNCHANGED <<proc, tabs, vectors, saveArg, saveSanitized, searchStale>>
    /\ UNCHANGED searcherVars
    /\ UNCHANGED history
    /\ UNCHANGED saveRepeat

\* the new snapshot is added to the stored one, not put in its place
save_tabs_assign_appends ==
    /\ savePc = "assign"
    /\ tabs' = JList(tabs.v \o saveSanitized.v)
    /\ savePc' = "vectorize"
    /\ UNCHANGED <<storage, proc, vectors, saveArg, saveSanitized, saveRet, saveResp, searchStale>>
    /\ UNCHANGED searcherVars
    /\ UNCHANGED history
    /\ UNCHANGED saveRepeat

\* line 44: self.tabs = sanitized
save_tabs_assign ==
    /\ savePc = "assign"
    /\ tabs' = saveSanitized
    /\ savePc' = "vectorize"
    /\ UNCHANGED <<storage, proc, vectors, saveArg, saveSanitized, saveRet, saveResp, searchStale>>
    /\ UNCHANGED searcherVars
    /\ UNCHANGED history
    /\ UNCHANGED saveRepeat

\* the rebuild is skipped for an empty snapshot
save_tabs_vectorize_unless_empty ==
    /\ savePc = "vectorize"
    /\ savePc' = "done"
    /\ LET rebuilt == IF Len(tabs.v) = 0 THEN vectors ELSE _vectorize_all(tabs)
       IN /\ vectors' = rebuilt
          /\ saveRet' = Returned
          /\ saveResp' = Response(200, "", Len(DictGet(saveArg, "tabs", JList(<<>>)).v))
    /\ UNCHANGED <<storage, proc, tabs, saveArg, saveSanitized, searchStale>>
    /\ UNCHANGED searcherVars
    /\ UNCHANGED history
    /\ UNCHANGED saveRepeat

\* the new vectors are added to the old ones
save_tabs_vectorize_extends ==
    /\ savePc = "vectorize"
    /\ savePc' = "done"
    /\ vectors' = JList(vectors.v \o _vectorize_all(tabs).v)
    /\ saveRet' = Returned
    /\ saveResp' = Response(200, "", Len(DictGet(saveArg, "tabs", JList(<<>>)).v))
    /\ UNCHANGED <<storage, proc, tabs, saveArg, saveSanitized, searchStale>>
    /\ UNCHANGED searcherVars
    /\ UNCHANGED history
    /\ UNCHANGED saveRepeat

\* line 45: self._vectorize_all(), then the route answers
save_tabs_vectorize ==
    /\ savePc = "vectorize"
    /\ savePc' = "done"
    /\ LET rebuilt == _vectorize_all(tabs)
       IN IF IsRaised(rebuilt)
          THEN /\ saveRet' = rebuilt
               /\ saveResp' = Response(500, ErrFailed, 0)
               /\ UNCHANGED vectors
          ELSE /\ vectors' = rebuilt
               /\ saveRet' = Returned
               /\ saveResp' = Response(200, "", Len(DictGet(saveArg, "tabs", JList(<<>>)).v))
    /\ UNCHANGED <<storage, proc, tabs, saveArg, saveSanitized, searchStale>>
    /\ UNCHANGED searcherVars
    /\ UNCHANGED history
    /\ UNCHANGED saveRepeat

\* self.tabs[index] (line 73)
TabAt(index) ==
    IF tabs.k = "dict" THEN Raised("KeyError")
    ELSE IF tabs.k \notin {"list", "str"} THEN Raised("TypeError")
    ELSE IF index >= Len(tabs.v) THEN Raised("IndexError")
    ELSE IF tabs.k = "str" THEN JStr(<<tabs.v[index + 1]>>)
    ELSE tabs.v[index + 1]

\* has_tabs (lines 31-32)
has_tabs == Len(tabs.v) > 0

\* search is entered (lines 68-70): the loop takes the list self.vectors is now
EnterSearch(call) ==
    /\ searchPc' = "loop"
    /\ searchCall' = call
    /\ searchIter' = vectors
    /\ searchIndex' = 0
    /\ searchScore' = DZero
    /\ searchResults' = <<>>
    /\ searchRet' = JNull

\* a retrieval call returns without having entered search
SkipSearch ==
    /\ searchPc' = "done"
    /\ searchCall' = JNull
    /\ searchIter' = JList(<<>>)
    /\ searchIndex' = 0
    /\ searchScore' = DZero
    /\ searchResults' = <<>>
    /\ searchRet' = JNull

\* a retrieval call begins on the second thread
BeginCall ==
    /\ proc = "up"
    /\ searchPc \in {"idle", "done"}
    /\ calls < MaxCalls
    /\ calls' = calls + 1
    /\ searchStale' = (savePc \notin {"idle", "done"})
    /\ UNCHANGED <<syncs, restarts>>
    /\ UNCHANGED <<storage, proc, tabs, vectors>>
    /\ UNCHANGED saverVars

\* _retriever.search(query, top_k, min_score) called directly
search_begin(call) ==
    /\ BeginCall
    /\ caller' = [kind |-> "search", arg |-> call, groups |-> <<>>]
    /\ callRet' = JNull
    /\ EnterSearch(call)

\* the dict one subtask contributes to groups (lines 105-109)
Group(name, found) == [subtask |-> name, tabs |-> found, matchCount |-> Len(found.v)]

\* group_tabs_for_subtasks up to its first search (lines 98-104)
group_begin(call) ==
    /\ BeginCall
    /\ caller' = [kind |-> "group", arg |-> call, groups |-> <<>>]
    /\ IF ~has_tabs \/ Len(call.subtask_names) = 0
       THEN /\ callRet' = JList(<<>>)
            /\ SkipSearch
       ELSE /\ callRet' = JNull
            /\ EnterSearch(SearchCall(CombinedQuery(call.task_name, call.subtask_names[1]),
                                      call.top_k, DefaultMinScore))

\* the dict get_relevant_tabs_flat returns (lines 477, 496-500, 503)
FlatAnswer(task, found, source, error) ==
    [task |-> task, tabs |-> found, source |-> source, error |-> error]
ErrNoTabs == "No synced tabs available."

\* get_relevant_tabs_flat up to its search (lines 474-485); core is what
\* extract_core_task returns or raises
flat_begin(task, core) ==
    /\ BeginCall
    /\ LET raw == Strip(PyOr(task, EmptyStr).v)
       IN /\ caller' = [kind |-> "flat", arg |-> [raw |-> raw, core |-> core], groups |-> <<>>]
          /\ IF ~has_tabs
             THEN /\ callRet' = FlatAnswer(raw, JList(<<>>), "", ErrNoTabs)
                  /\ SkipSearch
             ELSE IF IsRaised(core)
             THEN /\ callRet' = FlatAnswer(raw, JList(<<>>), "", core.v)
                  /\ SkipSearch
             ELSE /\ callRet' = JNull
                  /\ EnterSearch(SearchCall(core.v, FlatTopK, FlatMinScore))

\* search ends with an exception: it leaves group_tabs_for_subtasks as it
\* is, and get_relevant_tabs_flat catches it (lines 502-503)
search_raises(exc) ==
    /\ searchPc' = "done"
    /\ searchRet' = exc
    /\ callRet' = CASE caller.kind = "flat" -> FlatAnswer(caller.arg.raw, JList(<<>>), "", exc.v)
                    [] caller.kind = "group" -> exc
                    [] OTHER -> callRet
    /\ UNCHANGED <<caller, searchIndex, searchResults>>

\* lines 73-80 have built `found` for a passing score, or have raised it
search_append(found) ==
    IF IsRaised(found)
    THEN search_raises(found)
    ELSE /\ searchIndex' = searchIndex + 1
         /\ searchResults' = Append(searchResults, found)
         /\ UNCHANGED <<caller, callRet, searchPc, searchRet>>

\* lines 73-80 for the tab read at line 73
Found(tab, score, index) ==
    IF IsRaised(tab) THEN tab ELSE Match(tab, Rounded(score), index)

\* lines 72-80 for the score of line 71
search_scored(score) ==
    /\ searchScore' = score
    /\ IF ~Passes(score, searchCall.min_score)
       THEN /\ searchIndex' = searchIndex + 1
            /\ UNCHANGED <<caller, callRet, searchPc, searchResults, searchRet>>
       ELSE search_append(Found(TabAt(searchIndex), score, searchIndex))

\* one iteration of the loop, lines 70-80
search_step ==
    /\ searchPc = "loop"
    /\ searchIndex < Len(searchIter.v)
    /\ search_scored(_cosine_similarity(_vectorize_query(searchCall.query),
                                        searchIter.v[searchIndex + 1]))
    /\ UNCHANGED <<storage, proc, tabs, vectors, searchCall, searchIter, searchStale>>
    /\ UNCHANGED saverVars
    /\ UNCHANGED history

\* search returns `found` (line 82) to its caller, which goes on: a direct
\* caller has its answer, get_relevant_tabs_flat turns to the ids, and
\* group_tabs_for_subtasks appends a group and enters search for the next
\* subtask or returns groups
search_returns(found) ==
    LET done == Len(caller.groups)
        names == caller.arg.subtask_names
        groups == Append(caller.groups, Group(names[done + 1], found))
    IN IF caller.kind = "group" /\ done + 1 < Len(names)
       THEN /\ caller' = [caller EXCEPT !.groups = groups]
            /\ callRet' = JNull
            /\ EnterSearch(SearchCall(CombinedQuery(caller.arg.task_name, names[done + 2]),
                                      caller.arg.top_k, DefaultMinScore))
       ELSE /\ searchResults' = SortByScore(searchResults)
            /\ searchRet' = found
            /\ UNCHANGED <<searchCall, searchIter, searchIndex, searchScore>>
            /\ CASE caller.kind = "group" ->
                      /\ caller' = [caller EXCEPT !.groups = groups]
                      /\ callRet' = JList(groups)
                      /\ searchPc' = "done"
                 [] caller.kind = "flat" ->
                      /\ searchPc' = "attach"
                      /\ UNCHANGED <<caller, callRet>>
                 [] OTHER ->
                      /\ searchPc' = "done"
                      /\ UNCHANGED <<caller, callRet>>

\* the loop is over: lines 81-82
search_return ==
    /\ searchPc = "loop"
    /\ searchIndex = Len(searchIter.v)
    /\ search_returns(PySlice(JList(SortByScore(searchResults)), searchCall.top_k))
    /\ UNCHANGED <<storage, proc, tabs, vectors, searchStale>>
    /\ UNCHANGED saverVars
    /\ UNCHANGED history

\* t["url"] (line 491)
UrlOf(t) ==
    IF t.k # "dict" THEN Raised("TypeError")
    ELSE IF "url" \notin Keys(t.v) THEN Raised("KeyError")
    ELSE DictGet(t, "url", JNull)

\* m["id"] = id (line 492): the match with one more key
WithId(m, id) ==
    [k |-> "match", title |-> m.title, url |-> m.url, snippet |-> m.snippet,
     score |-> m.score, index |-> m.index, id |-> id]

\* lines 490-494 for one match: the first stored tab with the match's url
\* gives its id; no such tab, no id
Attach(m) ==
    LET it == Iterate(tabs)
    IN IF IsRaised(it) THEN it
       ELSE LET stop == {i \in 1..Len(it.v) : IsRaised(UrlOf(it.v[i])) \/ UrlOf(it.v[i]) = m.url}
            IN IF stop = {} THEN m
               ELSE LET first == CHOOSE i \in stop : \A j \in stop : i <= j
                    IN IF IsRaised(UrlOf(it.v[first])) THEN UrlOf(it.v[first])
                       ELSE WithId(m, DictGet(it.v[first], "id", JNull))

\* the answer of get_relevant_tabs_flat for the matches attached (lines
\* 488-503)
FlatReturn(attached) ==
    IF IsRaised(attached)
    THEN FlatAnswer(caller.arg.raw, JList(<<>>), "", attached.v)
    ELSE FlatAnswer(caller.arg.core.v, attached, "flat-search", "")

\* the id is written into the stored tab as well
flat_attach_marks_tabs ==
    /\ searchPc = "attach"
    /\ searchPc' = "done"
    /\ callRet' = FlatReturn(ListOrRaise([i \in 1..Len(searchRet.v) |-> Attach(searchRet.v[i])]))
    /\ tabs' = JList([i \in 1..Len(tabs.v) |->
                        IF \E r \in 1..Len(searchRet.v) : searchRet.v[r].url = UrlOf(tabs.v[i])
                        THEN JDict(tabs.v[i].v \o << <<"id", JNull>> >>)
                        ELSE tabs.v[i]])
    /\ UNCHANGED <<storage, proc, vectors, searchStale>>
    /\ UNCHANGED <<caller, searchCall, searchIter, searchIndex, searchScore, searchResults,
                   searchRet>>
    /\ UNCHANGED saverVars
    /\ UNCHANGED history

\* get_relevant_tabs_flat after its search: lines 488-500
flat_attach ==
    /\ searchPc = "attach"
    /\ searchPc' = "done"
    /\ callRet' = FlatReturn(ListOrRaise([i \in 1..Len(searchRet.v) |-> Attach(searchRet.v[i])]))
    /\ UNCHANGED <<storage, proc, tabs, vectors, searchStale>>
    /\ UNCHANGED <<caller, searchCall, searchIter, searchIndex, searchScore, searchResults,
                   searchRet>>
    /\ UNCHANGED saverVars
    /\ UNCHANGED history

Next ==
    \/ \E payload \in Payloads : sync_tabs(payload)
    \/ save_tabs_write
    \/ save_tabs_open_fails
    \/ \E written \in 0..MaxWritten : save_tabs_dump_fails(written)
    \/ save_tabs_assign
    \/ save_tabs_vectorize
    \/ \E call \in SearchCalls : search_begin(call)
    \/ \E call \in GroupCalls : group_begin(call)
    \/ \E task \in FlatTasks, core \in CoreTasks : flat_begin(task, core)
    \/ search_step
    \/ search_return
    \/ flat_attach
    \/ Restart

Spec == Init /\ [][Next]_vars

----------------------------------------------------------------------------
(* Properties *)

\* a direct search call has returned or raised, and no sync request arrived
\* while it ran
QuietSearchDone == searchPc = "done" /\ caller.kind = "search" /\ ~searchStale

\* C1: a search that runs while save_tabs replaces the snapshot reads tabs
\* and vectors of one and the same snapshot: whenever the loop is about to
\* read self.tabs[index] for a passing score, that read raises no IndexError
\* and yields the tab whose vector was scored.
C1_SearchSeesOnePair ==
    (searchPc = "loop" /\ searchIndex < Len(searchIter.v)
       /\ Passes(_cosine_similarity(_vectorize_query(searchCall.query),
                                    searchIter.v[searchIndex + 1]),
                 searchCall.min_score))
    => /\ ~IsRaised(TabAt(searchIndex))
       /\ _vectorize_tab(TabAt(searchIndex)) = searchIter.v[searchIndex + 1]

\* C2: when the file write of save_tabs fails, save_tabs raises, the route
\* answers 500, and tabs and vectors are what they were; tabs is assigned
\* only at line 44, when the file already holds the new snapshot.
C2_FailedWriteKeepsMemory ==
    [][ /\ (savePc = "write" /\ savePc' = "done")
            => (IsRaised(saveRet') /\ saveResp'.status = 500
                /\ tabs' = tabs /\ vectors' = vectors)
        /\ (tabs' # tabs /\ restarts' = restarts)
            => (savePc = "assign" /\ storage = FileOf(Encode(tabs'))) ]_vars

\* C2 witness: a write has failed while the process held a non-empty
\* snapshot other than the one being saved
C2_Witness ==
    /\ savePc = "done" /\ saveRet = Raised("OSError")
    /\ Len(tabs.v) > 0 /\ tabs # saveSanitized

\* C3: whenever no save_tabs call is under way, loading the storage file
\* anew gives the tab sequence the process holds in memory.
C3_MemoryMatchesFile ==
    (proc = "up" /\ savePc \in {"idle", "done"}) => LoadTabs(storage) = tabs

\* C4: constructing the TabRetriever completes for every content of the
\* storage file.
C4_LoadNeverRaises == proc # "crashed"

\* a stored tab as the specification describes it
WellFormedTab(tab) ==
    /\ tab.k = "dict"
    /\ {"title", "url", "content"} \subseteq Keys(tab.v)
    /\ DictGet(tab, "title", JNull).k = "str"
    /\ Len(DictGet(tab, "title", JNull).v) <= TitleLimit
    /\ DictGet(tab, "content", JNull).k = "str"
    /\ Len(DictGet(tab, "content", JNull).v) <= ContentLimit

\* C5: every stored tab has title, url and content, a title of at most 200
\* and a content of at most 6000 characters.
C5_StoredTabsSanitized ==
    proc = "up" => (tabs.k = "list" /\ \A i \in 1..Len(tabs.v) : WellFormedTab(tabs.v[i]))

\* the request body asks to ingest something that is no sequence of records
Malformed(payload) ==
    /\ payload.k = "dict"
    /\ LET value == DictGet(payload, "tabs", JList(<<>>))
       IN \/ value.k # "list"
          \/ \E i \in 1..Len(value.v) : value.v[i].k # "dict"

\* C6: an ingest whose tabs value is no sequence, or a sequence with a
\* non-record element, is answered with the 400 error that names the
\* expected shape before any element has been sanitized, and storage, tabs
\* and vectors stay as they were.
C6_MalformedRejected ==
    [][ (syncs' = syncs + 1 /\ Malformed(saveArg'))
        => /\ saveResp' = Response(400, ErrNotList, 0)
           /\ saveSanitized' = JList(<<>>)
           /\ UNCHANGED <<storage, tabs, vectors>> ]_vars

\* the match search builds for a stored tab, whatever its score
MatchOf(m, tab) ==
    /\ m.title = PyOr(DictGet(tab, "title", JNull), EmptyStr)
    /\ m.url = PyOr(DictGet(tab, "url", JNull), EmptyStr)
    /\ m.snippet = PySlice(PyOr(DictGet(tab, "content", JNull), EmptyStr), SnippetLimit)

\* C7: a search that begins after a save_tabs call has completed, with no
\* sync request since, does not raise and returns only matches built from
\* tabs of the snapshot that call saved.
C7_SearchSeesNewSnapshot ==
    (QuietSearchDone /\ savePc = "done" /\ saveRet = Returned)
    => /\ ~IsRaised(searchRet)
       /\ \A i \in 1..Len(searchRet.v) :
             \E j \in 1..Len(saveSanitized.v) : MatchOf(searchRet.v[i], saveSanitized.v[j])

\* C7 witness: the snapshot [Linear Algebra Notes, Pizza Recipe] was
\* replaced by [Pizza Recipe], and a later search has returned a match
C7_Witness ==
    /\ QuietSearchDone /\ savePc = "done" /\ saveRet = Returned
    /\ saveSanitized = JList(<<SanitizeTab(RawB)>>)
    /\ ~IsRaised(searchRet) /\ Len(searchRet.v) = 1
    /\ restarts = 0 /\ syncs = 1

\* the score field of a match, in ten-thousandths, is at least min_score
AtLeast(rounded, min_score) == rounded * min_score.den >= min_score.num * 10^ScoreDigits

\* C8: no match search returns has a score field below min_score.
C8_ScoreFieldAtLeastMin ==
    (QuietSearchDone /\ ~IsRaised(searchRet))
    => \A i \in 1..Len(searchRet.v) : AtLeast(searchRet.v[i].score, searchCall.min_score)

\* C9 as stated: the sequence search returns has at most top_k elements,
\* for every integer top_k.
C9_AtMostTopK ==
    (QuietSearchDone /\ ~IsRaised(searchRet)) => Len(searchRet.v) <= searchCall.top_k

\* C9 amended: with top_k >= 0 search returns at most top_k matches; with
\* top_k < 0 it returns all passing matches but the last -top_k.
C9_TopKSlice ==
    (QuietSearchDone /\ ~IsRaised(searchRet))
    => IF searchCall.top_k >= 0
       THEN Len(searchRet.v) <= searchCall.top_k
       ELSE Len(searchRet.v) = Max(0, Len(searchResults) + searchCall.top_k)

\* C9 witness: two tabs passed and top_k = 1 cut the result to one
C9_Witness ==
    /\ QuietSearchDone /\ ~IsRaised(searchRet)
    /\ searchCall.top_k = 1 /\ Len(searchResults) = 2 /\ Len(searchRet.v) = 1

\* C10: a query without tokens gets the empty sequence, whatever min_score.
C10_NoTokenNoMatch ==
    (QuietSearchDone /\ Len(_tokenize(searchCall.query)) = 0)
    => searchRet = JList(<<>>)

\* C11: the matches search returns are in non-increasing order of score,
\* and matches of equal score are in the order of their tabs in the snapshot.
C11_SortedStable ==
    (QuietSearchDone /\ ~IsRaised(searchRet))
    => \A i, j \in 1..Len(searchRet.v) :
          i < j => \/ searchRet.v[i].score > searchRet.v[j].score
                   \/ /\ searchRet.v[i].score = searchRet.v[j].score
                      /\ searchRet.v[i].index < searchRet.v[j].index

\* C11 witness: search has returned two matches of equal score
C11_Witness ==
    /\ QuietSearchDone /\ ~IsRaised(searchRet)
    /\ Len(searchRet.v) = 2
    /\ searchRet.v[1].score = searchRet.v[2].score

\* the float 1.0
DOne == DFromInt(1)

\* the query text is a stored tab's title + " " + content
OwnText(tab) ==
    /\ DictGet(tab, "title", JNull).k = "str"
    /\ DictGet(tab, "content", JNull).k = "str"
    /\ searchCall.query = DictGet(tab, "title", JNull).v \o <<" ">> \o DictGet(tab, "content", JNull).v

\* a direct search, undisturbed by sync requests, has just scored the
\* stored tab at position searchIndex
JustScored ==
    /\ caller.kind = "search" /\ ~searchStale /\ searchPc \in {"loop", "done"}
    /\ searchIndex >= 1 /\ searchIndex <= Len(tabs.v)

\* C12: scored against the query made of its own title + " " + content, a
\* stored tab gets the score 1.0 exactly.
C12_SelfSimilarityOne ==
    (JustScored /\ OwnText(tabs.v[searchIndex])) => searchScore = DOne

\* C13: every score _cosine_similarity returns lies in 0.0 .. 1.0.
C13_ScoreBounds ==
    searchPc \in {"loop", "done", "attach"}
    => (~searchScore.neg /\ DGeq(DOne, searchScore))

\* C14: a save_tabs call with the input of the call that completed just
\* before it leaves tabs, vectors and the storage file as that call left
\* them, at each of its steps (so every search answers as before).
C14_RepeatedSaveChangesNothing ==
    [][ (saveRepeat /\ savePc \in {"write", "assign", "vectorize"}
           /\ savePc' \in {"assign", "vectorize", "done"} /\ ~IsRaised(saveRet'))
        => UNCHANGED <<tabs, vectors, storage>> ]_vars

\* C14 witness: the second of two equal calls has completed on a non-empty
\* snapshot
C14_Witness ==
    /\ saveRepeat /\ savePc = "done" /\ saveRet = Returned
    /\ Len(tabs.v) > 0

\* C15: on the empty snapshot search returns the empty sequence for every
\* call, and has_tabs is false: get_relevant_tabs_flat reports that no
\* tabs are synced.
C15_EmptySnapshot ==
    (searchPc = "done" /\ ~searchStale /\ savePc \in {"idle", "done"} /\ tabs = JList(<<>>))
    => /\ ~has_tabs
       /\ caller.kind = "search" => searchRet = JList(<<>>)
       /\ caller.kind = "flat" => callRet = FlatAnswer(caller.arg.raw, JList(<<>>), "", ErrNoTabs)

\* C15 witness: save_tabs([]) has replaced a snapshot and a search with
\* min_score 0 has returned
C15_Witness ==
    /\ QuietSearchDone /\ tabs = JList(<<>>)
    /\ savePc = "done" /\ saveRet = Returned /\ saveArg = Body(JList(<<>>))
    /\ storage = FileOf(Encode(JList(<<>>)))
    /\ searchCall.min_score = Decimal(0, 1)
    /\ searchRet = JList(<<>>)

\* a retrieval call of the given kind has returned, undisturbed by sync
\* requests
QuietCallDone(kind) == searchPc = "done" /\ caller.kind = kind /\ ~searchStale

\* the records of the last sync request
Ingested == DictGet(saveArg, "tabs", JList(<<>>)).v

\* C16: after an ingest of records that carry an id, every match that
\* get_relevant_tabs_flat returns carries the id of the ingested record
\* with the match's url.
C16_MatchCarriesId ==
    (/\ QuietCallDone("flat") /\ callRet.error = ""
     /\ savePc = "done" /\ saveRet = Returned
     /\ \A i \in 1..Len(Ingested) : "id" \in Keys(Ingested[i].v))
    => \A k \in 1..Len(callRet.tabs.v) :
          LET m == callRet.tabs.v[k]
          IN /\ "id" \in DOMAIN m
             /\ \E i \in 1..Len(Ingested) :
                   /\ DictGet(Ingested[i], "url", JNull) = m.url
                   /\ DictGet(Ingested[i], "id", JNull) = m.id

\* search(query, top_k, min_score) on the stored snapshot, run alone
SearchOf(query, top_k, min_score) ==
    LET score(i) == _cosine_similarity(_vectorize_query(query), vectors.v[i])
        kept == {i \in 1..Len(vectors.v) : Passes(score(i), min_score)}
        nth(r) == CHOOSE i \in kept : Cardinality({m \in kept : m < i}) = r - 1
        results == [r \in 1..Cardinality(kept) |->
                       Match(tabs.v[nth(r)], Rounded(score(nth(r))), nth(r) - 1)]
    IN PySlice(JList(SortByScore(results)), top_k)

\* C17: on the empty snapshot group_tabs_for_subtasks returns the empty
\* list and enters no search; otherwise it returns one group per subtask
\* name, in order, each with the result of search(task name + " " + subtask
\* name, top_k) and with matchCount the length of that result.
C17_GroupPerSubtask ==
    QuietCallDone("group")
    => IF Len(tabs.v) = 0
       THEN callRet = JList(<<>>) /\ searchCall = JNull
       ELSE /\ ~IsRaised(callRet)
            /\ Len(callRet.v) = Len(caller.arg.subtask_names)
            /\ \A i \in 1..Len(callRet.v) :
                  /\ callRet.v[i].subtask = caller.arg.subtask_names[i]
                  /\ callRet.v[i].tabs =
                        SearchOf(caller.arg.task_name \o <<" ">> \o caller.arg.subtask_names[i],
                                 caller.arg.top_k, DefaultMinScore)
                  /\ callRet.v[i].matchCount = Len(callRet.v[i].tabs.v)

\* C17 witness: two subtasks got a group each, with the same tab in both
C17_Witness ==
    /\ QuietCallDone("group") /\ ~IsRaised(callRet)
    /\ Len(callRet.v) = 2
    /\ callRet.v[1].matchCount = 1 /\ callRet.v[2].matchCount = 1
    /\ callRet.v[1].tabs.v[1].url = callRet.v[2].tabs.v[1].url

\* C18: a tab that shares no token with the query scores 0.0 and is left
\* out when min_score > 0; the specification's example returns exactly the
\* match with url u1.
C18_DisjointScoresZero ==
    /\ (JustScored
          /\ (DOMAIN _vectorize_query(searchCall.query).v)
                \cap (DOMAIN vectors.v[searchIndex].v) = {})
       => /\ searchScore = DZero
          /\ searchCall.min_score.num > 0
                => \A r \in 1..Len(searchResults) : searchResults[r].index # searchIndex - 1
    /\ (QuietSearchDone /\ tabs = PreviousSnapshot
          /\ searchCall = SearchCall(QueryExample, 2, DefaultMinScore))
       => /\ ~IsRaised(searchRet)
          /\ Len(searchRet.v) = 1
          /\ searchRet.v[1].url = Url(1)

\* C18 witness: the example's search has returned, and the Pizza Recipe tab
\* was scored 0.0
C18_Witness ==
    /\ QuietSearchDone /\ tabs = PreviousSnapshot
    /\ searchCall = SearchCall(QueryExample, 2, DefaultMinScore)
    /\ Len(searchRet.v) = 1
    /\ searchScore = DZero

\* C19: when no save_tabs call is under way, vectors has one element for
\* each stored tab, the term-frequency vector of the tab's title, a blank
\* and its content.
C19_VectorsFollowTabs ==
    (proc = "up" /\ savePc \in {"idle", "done"})
    => /\ vectors.k = "list"
       /\ Len(vectors.v) = Len(tabs.v)
       /\ \A i \in 1..Len(tabs.v) :
             vectors.v[i] = JCounter(Counter(_tokenize(
                                Format(DictGet(tabs.v[i], "title", EmptyStr)) \o <<" ">>
                                \o Format(DictGet(tabs.v[i], "content", EmptyStr)))))

\* C19 witness: a completed save_tabs call has replaced a two-tab snapshot
\* by a one-tab snapshot
C19_Witness ==
    /\ savePc = "done" /\ saveRet = Returned /\ restarts = 0 /\ syncs = 1
    /\ saveArg = Body(JList(<<RawB>>))
    /\ Len(vectors.v) = 1
    /\ LoadTabs(storage) = tabs

\* C20: a step of a retrieval call leaves tabs, vectors and the storage
\* file as they are; they change only in a step of save_tabs (or when the
\* process starts).
C20_RetrievalReadsOnly ==
    [][ /\ (searcherVars' # searcherVars /\ restarts' = restarts)
            => UNCHANGED <<tabs, vectors, storage>>
        /\ (<<tabs, vectors, storage>>' # <<tabs, vectors, storage>> /\ restarts' = restarts)
            => savePc \in {"write", "assign", "vectorize"} ]_vars

\* C20 witness: get_relevant_tabs_flat has attached an id key to a match
C20_Witness ==
    /\ QuietCallDone("flat") /\ callRet.error = ""
    /\ Len(callRet.tabs.v) > 0
    /\ "id" \in DOMAIN callRet.tabs.v[1]

====
